---- MODULE Spec2Model ----
(***************************************************************************)
(* The inventory grid of ox-inventory-redesign-grid: packItems (the        *)
(* first-fit packer over a boolean occupancy matrix) and the two views the *)
(* InventoryGrid component derives from its result, placementMap and       *)
(* emptyCellSlots.                                                         *)
(*                                                                         *)
(* Rows and columns are 0-based as in the source.  The occupancy matrix    *)
(* `occupied` is a sequence of rows (row r is occupied[r + 1]); a row is   *)
(* the set of column indices whose entry is true.  A JavaScript read of an *)
(* index that was never written gives a falsy value, and a write past the  *)
(* end of a row array extends it, which is what set membership and set     *)
(* union do.                                                               *)
(***************************************************************************)
EXTENDS Integers, Sequences, FiniteSets, TLC

\* ------------------------------------------------------------ constants
GRID_COLS == 10

\* The floor of the returned row count: Math.max(maxRow, 4).
MinRows == 4

\* An OTHERPLAYER inventory drops its first 9 slots: base.slice(9).
HotbarSlots == 9

\* The column count packItems is called with.
cols == GRID_COLS

\* An absent optional field (gridX, gridY, name): the empty sequence; a
\* present one is the one-element sequence of its value.
undefined == <<>>

\* ------------------------------------------------------------ bounds
\* Longest slot list drawn from SlotKinds.
MaxSlots == 3

\* Longest slot list of 1x1 slots without a fixed position.
MaxUniform == 22

\* Rows the search of findFree may scan before the model stops following it.
MaxScanRow == 8

\* ------------------------------------------------------------ inputs
Some(v) == <<v>>

Kind(name, w, h, gridX, gridY) ==
    [name |-> name, w |-> w, h |-> h, gridX |-> gridX, gridY |-> gridY]

\* The footprints and positions the general slot lists are built from: an
\* item and an empty slot of 1x1, a 2x2, two items wider than half the grid,
\* one wider than the grid, fixed positions at the origin, inside the grid,
\* across the right edge and of an over-wide item, and a slot that carries
\* gridX only.
SlotKinds ==
    { Kind(Some("water"), 1, 1, undefined, undefined),
      Kind(undefined, 1, 1, undefined, undefined),
      Kind(Some("armour"), 2, 2, undefined, undefined),
      Kind(Some("rifle"), 6, 1, undefined, undefined),
      Kind(Some("crate"), 6, 2, undefined, undefined),
      Kind(Some("ladder"), cols + 1, 1, undefined, undefined),
      Kind(Some("phone"), 1, 1, Some(0), Some(0)),
      Kind(Some("bat"), 1, 2, Some(5), Some(2)),
      Kind(Some("pistol"), 2, 1, Some(cols - 1), Some(0)),
      Kind(Some("plank"), cols + 1, 1, Some(0), Some(1)),
      Kind(Some("radio"), 1, 1, Some(3), undefined) }

GeneralLists == UNION { [1..n -> SlotKinds] : n \in 0..MaxSlots }

\* Lists of 1x1 slots without a fixed position: k slots of one sort, then
\* slots of the other sort (items first, or empty slots first).
UniformLists ==
    { [i \in 1..n |->
          Kind(IF (i <= k) = itemsFirst THEN Some("water") ELSE undefined,
               1, 1, undefined, undefined)] :
        n \in 0..MaxUniform, k \in 0..MaxUniform, itemsFirst \in BOOLEAN }

\* The two packing scenarios of the specification's section 8.
ScenarioLists ==
    { << Kind(Some("water"), 1, 1, undefined, undefined),
         Kind(Some("water"), 1, 1, undefined, undefined),
         Kind(Some("armour"), 2, 2, undefined, undefined),
         Kind(Some("water"), 1, 1, undefined, undefined) >>,
      << Kind(Some("bat"), 1, 2, Some(5), Some(2)),
         Kind(Some("water"), 1, 1, undefined, undefined),
         Kind(Some("water"), 1, 1, undefined, undefined),
         Kind(Some("water"), 1, 1, undefined, undefined) >> }

InputLists == GeneralLists \cup UniformLists \cup ScenarioLists

\* inventory.items numbers its slots from 1; slotsToRender is that list, or
\* for an OTHERPLAYER inventory the list without its first 9 slots.
SlotsToRender(kinds, otherPlayer) ==
    [i \in 1..Len(kinds) |->
        [slot  |-> IF otherPlayer THEN HotbarSlots + i ELSE i,
         name  |-> kinds[i].name,
         w     |-> kinds[i].w,
         h     |-> kinds[i].h,
         gridX |-> kinds[i].gridX,
         gridY |-> kinds[i].gridY]]

\* ------------------------------------------------------------ state
VARIABLES
    slotsToRender,   \* the slot list packItems is called with
    pc,              \* "loop", "findFree", "packed", "mapped", "rendered"
    idx,             \* position in slotsToRender of the slot being processed
    occupied,        \* packItems' occupancy matrix
    r,               \* findFree's row counter
    placements,      \* packItems' placement list
    rows,            \* the row count packItems returned
    findFreeCalls,   \* positions in slotsToRender findFree was called for
    placementMap,    \* the component's cell key -> (placement, slot) map
    emptyCellSlots   \* the component's drop-target list

vars == << slotsToRender, pc, idx, occupied, r, placements, rows,
           findFreeCalls, placementMap, emptyCellSlots >>

\* ------------------------------------------------------------ helpers
Max(a, b) == IF a >= b THEN a ELSE b

Min(S) == CHOOSE x \in S : \A y \in S : x <= y

getItemWidth(slot) == slot.w

getItemHeight(slot) == slot.h

ensureRows(occ, maxRow) ==
    IF Len(occ) <= maxRow
    THEN occ \o [k \in 1..(maxRow + 1 - Len(occ)) |-> {}]
    ELSE occ

\* Mutant of markOccupied: marks the rectangle's first row only.
markOccupiedTopRowOnly(occ, col, row, w, h) ==
    LET grown == ensureRows(occ, row + h - 1)
    IN  [k \in 1..Len(grown) |->
            IF k - 1 = row
            THEN grown[k] \cup col..(col + w - 1)
            ELSE grown[k]]

markOccupied(occ, col, row, w, h) ==
    LET grown == ensureRows(occ, row + h - 1)
    IN  [k \in 1..Len(grown) |->
            IF (k - 1) \in row..(row + h - 1)
            THEN grown[k] \cup col..(col + w - 1)
            ELSE grown[k]]

\* Mutant of ScanColumns: the loop bound c < cols, which forgets the width.
ScanColumnsToLastColumn(w) == 0..(cols - 1)

\* Mutant of ScanColumns: the loop starts at c = 1.
ScanColumnsFromOne(w) == 1..(cols - w)

\* The columns findFree tries in a row: for (c = 0; c <= cols - w; c++).
ScanColumns(w) == 0..(cols - w)

\* Mutant of Fits: tests the rectangle's top-left cell only.
FitsTopLeftOnly(occ, c, row, w, h) == c \notin occ[row + 1]

\* The fits flag of findFree for the rectangle at (c, row); occ has the rows
\* up to row + h - 1.
Fits(occ, c, row, w, h) ==
    \A dr \in 0..(h - 1) : \A dc \in 0..(w - 1) :
        (c + dc) \notin occ[row + dr + 1]

\* The columns of a row at which the rectangle fits.
FittingColumns(occ, row, w, h) ==
    { c \in ScanColumns(w) : Fits(occ, c, row, w, h) }

\* Mutant of FirstFit: the last fitting column of the row.
LastFit(S) == CHOOSE x \in S : \A y \in S : x >= y

\* The column loop returns at the first fitting column.
FirstFit(S) == Min(S)

HasFixedPosition(slot) == slot.gridX # undefined /\ slot.gridY # undefined

\* Mutant of FixedPlacement: gridX taken as the row and gridY as the column.
FixedPlacementTransposed(slot) ==
    [slot |-> slot.slot, col |-> slot.gridY[1], row |-> slot.gridX[1],
     w |-> slot.w, h |-> slot.h]

FixedPlacement(slot) ==
    [slot |-> slot.slot, col |-> slot.gridX[1], row |-> slot.gridY[1],
     w |-> getItemWidth(slot), h |-> getItemHeight(slot)]

\* Mutant of FoundPlacement: the footprint recorded with w and h exchanged.
FoundPlacementTransposed(slot, col, row) ==
    [slot |-> slot.slot, col |-> col, row |-> row,
     w |-> slot.h, h |-> slot.w]

FoundPlacement(slot, col, row) ==
    [slot |-> slot.slot, col |-> col, row |-> row,
     w |-> getItemWidth(slot), h |-> getItemHeight(slot)]

\* ------------------------------------------------------------ packItems
InitFrom(lists, players) ==
    /\ \E kinds \in lists : \E otherPlayer \in players :
          slotsToRender = SlotsToRender(kinds, otherPlayer)
    /\ pc = "loop"
    /\ idx = 1
    /\ occupied = <<>>
    /\ r = 0
    /\ placements = <<>>
    /\ rows = 0
    /\ findFreeCalls = {}
    /\ placementMap = <<>>
    /\ emptyCellSlots = <<>>

Init == InitFrom(InputLists, BOOLEAN)

\* The inputs of the termination check: the scenario lists and the lists
\* built from the kinds that differ in footprint or position for the packer
\* (a searched 1x1, 2x2, 6x2 and over-wide slot, a slot with gridX only, and
\* slots fixed at the origin, inside the grid and over-wide), of an
\* inventory that keeps all its slots.
PackKinds ==
    { kind \in SlotKinds :
        kind.name \in { Some("water"), Some("armour"), Some("crate"),
                        Some("ladder"), Some("radio"), Some("phone"),
                        Some("bat"), Some("plank") } }

PackLists == UNION { [1..n -> PackKinds] : n \in 0..MaxSlots }

PackInit == InitFrom(PackLists \cup ScenarioLists, {FALSE})

\* A loop iteration for a slot that carries gridX and gridY.
PlaceFixed ==
    /\ pc = "loop"
    /\ idx <= Len(slotsToRender)
    /\ HasFixedPosition(slotsToRender[idx])
    /\ LET p == FixedPlacement(slotsToRender[idx])
       IN  /\ occupied' = markOccupied(occupied, p.col, p.row, p.w, p.h)
           /\ placements' = Append(placements, p)
    /\ idx' = idx + 1
    /\ UNCHANGED << slotsToRender, pc, r, rows, findFreeCalls, placementMap,
                    emptyCellSlots >>

\* A loop iteration for any other slot calls findFree.
CallFindFree ==
    /\ pc = "loop"
    /\ idx <= Len(slotsToRender)
    /\ ~HasFixedPosition(slotsToRender[idx])
    /\ pc' = "findFree"
    /\ r' = 0
    /\ findFreeCalls' = findFreeCalls \cup {idx}
    /\ UNCHANGED << slotsToRender, idx, occupied, placements, rows,
                    placementMap, emptyCellSlots >>

\* One pass of findFree's row loop in which no column fits.
FindFreeNextRow ==
    /\ pc = "findFree"
    /\ r < MaxScanRow
    /\ LET w == getItemWidth(slotsToRender[idx])
           h == getItemHeight(slotsToRender[idx])
           grown == ensureRows(occupied, r + h - 1)
       IN  /\ FittingColumns(grown, r, w, h) = {}
           /\ occupied' = grown
    /\ r' = r + 1
    /\ UNCHANGED << slotsToRender, pc, idx, placements, rows, findFreeCalls,
                    placementMap, emptyCellSlots >>

\* The pass of findFree's row loop that returns, and the rest of the loop
\* iteration of packItems.
FindFreeReturn ==
    /\ pc = "findFree"
    /\ LET slot == slotsToRender[idx]
           w == getItemWidth(slot)
           h == getItemHeight(slot)
           grown == ensureRows(occupied, r + h - 1)
           fitting == FittingColumns(grown, r, w, h)
       IN  /\ fitting # {}
           /\ LET p == FoundPlacement(slot, FirstFit(fitting), r)
              IN  /\ occupied' = markOccupied(grown, p.col, p.row, p.w, p.h)
                  /\ placements' = Append(placements, p)
    /\ pc' = "loop"
    /\ idx' = idx + 1
    /\ UNCHANGED << slotsToRender, r, rows, findFreeCalls, placementMap,
                    emptyCellSlots >>

RECURSIVE MaxRowFrom(_, _, _)
\* placements.reduce((m, p) => Math.max(m, p.row + p.h), 0), from position k.
MaxRowFrom(ps, k, m) ==
    IF k > Len(ps) THEN m
    ELSE MaxRowFrom(ps, k + 1, Max(m, ps[k].row + ps[k].h))

\* Mutant of RowCount: the floor of 4 rows left out.
RowCountNoFloor(ps) == MaxRowFrom(ps, 1, 0)

RowCount(ps) == Max(MaxRowFrom(ps, 1, 0), MinRows)

PackReturn ==
    /\ pc = "loop"
    /\ idx > Len(slotsToRender)
    /\ rows' = RowCount(placements)
    /\ pc' = "packed"
    /\ UNCHANGED << slotsToRender, idx, occupied, r, placements,
                    findFreeCalls, placementMap, emptyCellSlots >>

\* ------------------------------------------------------------ component
\* The map key of a cell: the template string `${c},${r}`.
CellKey(c, row) == ToString(c) \o "," \o ToString(row)

\* slotsToRender.find((s) => s.slot === n): the first slot numbered n, as a
\* one-element sequence, or undefined.
FindSlot(ss, n) ==
    LET hits == { i \in 1..Len(ss) : ss[i].slot = n }
    IN  IF hits = {} THEN undefined ELSE Some(ss[Min(hits)])

\* map.set(key, {placement, slot}) for every cell the placement covers.
SetCells(map, p, slot) ==
    LET keys == { CellKey(c, row) : c \in p.col..(p.col + p.w - 1),
                                    row \in p.row..(p.row + p.h - 1) }
    IN  [key \in (DOMAIN map) \cup keys |->
            IF key \in keys THEN [placement |-> p, slot |-> slot]
            ELSE map[key]]

RECURSIVE BuildPlacementMap(_, _, _, _)
\* The loop over placements, from position k, with the map built so far.
BuildPlacementMap(ps, ss, k, map) ==
    IF k > Len(ps) THEN map
    ELSE LET found == FindSlot(ss, ps[k].slot)
         IN  IF found = undefined
             THEN BuildPlacementMap(ps, ss, k + 1, map)
             ELSE BuildPlacementMap(ps, ss, k + 1,
                                    SetCells(map, ps[k], found[1]))

PlacementMap ==
    /\ pc = "packed"
    /\ placementMap' = BuildPlacementMap(placements, slotsToRender, 1, <<>>)
    /\ pc' = "mapped"
    /\ UNCHANGED << slotsToRender, idx, occupied, r, placements, rows,
                    findFreeCalls, emptyCellSlots >>

\* slotsToRender.filter((s) => s.name === undefined)
EmptySlots(ss) == SelectSeq(ss, LAMBDA s : s.name = undefined)

\* Mutant of TakesEmptySlot: the lookup in the placement map left out.
TakesEmptySlotAnyCell(map, emptySlots, emptyIdx, c, row) ==
    emptyIdx < Len(emptySlots)

\* Whether the scan gives the cell a drop target: the cell has no entry in
\* the map and emptySlots[emptyIdx] is defined.
TakesEmptySlot(map, emptySlots, emptyIdx, c, row) ==
    /\ CellKey(c, row) \notin DOMAIN map
    /\ emptyIdx < Len(emptySlots)

RECURSIVE ScanCells(_, _, _, _, _, _)
\* The two nested loops over the grid, from cell number n (row n \div
\* GRID_COLS, column n % GRID_COLS), with emptyIdx and the result so far.
ScanCells(map, emptySlots, nRows, n, emptyIdx, result) ==
    IF n >= nRows * GRID_COLS THEN result
    ELSE LET c == n % GRID_COLS
             row == n \div GRID_COLS
         IN  IF TakesEmptySlot(map, emptySlots, emptyIdx, c, row)
             THEN ScanCells(map, emptySlots, nRows, n + 1, emptyIdx + 1,
                            Append(result,
                                   [col |-> c, row |-> row,
                                    slot |-> emptySlots[emptyIdx + 1]]))
             ELSE ScanCells(map, emptySlots, nRows, n + 1, emptyIdx, result)

EmptyCellSlots ==
    /\ pc = "mapped"
    /\ emptyCellSlots' =
          ScanCells(placementMap, EmptySlots(slotsToRender), rows, 0, 0, <<>>)
    /\ pc' = "rendered"
    /\ UNCHANGED << slotsToRender, idx, occupied, r, placements, rows,
                    findFreeCalls, placementMap >>

Next ==
    \/ PlaceFixed
    \/ CallFindFree
    \/ FindFreeNextRow
    \/ FindFreeReturn
    \/ PackReturn
    \/ PlacementMap
    \/ EmptyCellSlots

Spec == Init /\ [][Next]_vars

PackNext ==
    \/ PlaceFixed
    \/ CallFindFree
    \/ FindFreeNextRow
    \/ FindFreeReturn
    \/ PackReturn

\* packItems alone, which runs synchronously to its end: a step of it that
\* can be taken is taken.
FairSpec == PackInit /\ [][PackNext]_vars /\ WF_vars(PackNext)

\* ------------------------------------------------------------ properties
\* packItems has returned.
Returned == pc \in {"packed", "mapped", "rendered"}

\* The grid cells a placement's rectangle [col, col+w) x [row, row+h) covers.
Cells(p) ==
    { <<c, row>> : c \in p.col..(p.col + p.w - 1),
                   row \in p.row..(p.row + p.h - 1) }

Overlap(p, q) == Cells(p) \cap Cells(q) # {}

InsideGrid(p) == 0 <= p.col /\ p.col + p.w <= cols

Placed == 1..Len(placements)

Fixed(k) == HasFixedPosition(slotsToRender[k])

AllFootprintsFit == \A i \in 1..Len(slotsToRender) : slotsToRender[i].w <= cols

\* C1, as claimed: with every footprint of w <= cols, the placements
\* packItems returns are pairwise non-overlapping, fixed positions or not.
C1_NoOverlapAtAll ==
    (Returned /\ AllFootprintsFit) =>
        \A i \in Placed : \A j \in Placed :
            i < j => ~Overlap(placements[i], placements[j])

\* C1, amended: with every footprint of w <= cols, two placements overlap
\* only if the later of the two in input order is a fixed-position slot; a
\* slot placed by the search overlaps no placement made before it.
C1_NoOverlapUnlessLaterFixed ==
    AllFootprintsFit =>
        \A i \in Placed : \A j \in Placed :
            (i < j /\ ~Fixed(j)) => ~Overlap(placements[i], placements[j])

\* C1's case: a searched slot placed right beside an earlier fixed slot's
\* rectangle, in a list of fitting footprints.
C1_Witness ==
    /\ Returned
    /\ AllFootprintsFit
    /\ \E i \in Placed : \E j \in Placed :
          /\ i < j /\ Fixed(i) /\ ~Fixed(j)
          /\ placements[j].row = placements[i].row
          /\ placements[j].col = placements[i].col + placements[i].w

\* C2, as claimed: every returned placement lies horizontally inside the
\* grid, fixed positions included.
C2_AllInsideGrid ==
    Returned => \A k \in Placed : InsideGrid(placements[k])

\* C2, amended: every placement of a slot without a fixed position lies
\* horizontally inside the grid; a fixed-position slot is placed at
\* col = gridX unchecked, so it lies inside exactly when gridX + w <= cols.
C2_SearchedInsideGrid ==
    \A k \in Placed :
        IF Fixed(k)
        THEN InsideGrid(placements[k]) <=>
                 (0 <= slotsToRender[k].gridX[1]
                    /\ slotsToRender[k].gridX[1] + slotsToRender[k].w <= cols)
        ELSE InsideGrid(placements[k])

\* C2's case: a searched slot placed against the right edge of the grid.
C2_Witness ==
    /\ Returned
    /\ \E k \in Placed :
          ~Fixed(k) /\ placements[k].col + placements[k].w = cols

\* C3: a slot that carries gridX and gridY is placed at exactly (gridX,
\* gridY) with its own footprint, and findFree is not called for it.
C3_FixedPositionHonoured ==
    \A k \in Placed :
        Fixed(k) =>
            /\ placements[k].col = slotsToRender[k].gridX[1]
            /\ placements[k].row = slotsToRender[k].gridY[1]
            /\ placements[k].w = slotsToRender[k].w
            /\ placements[k].h = slotsToRender[k].h
            /\ k \notin findFreeCalls

\* C3's case: a fixed slot placed on a cell an earlier slot already covers.
C3_Witness ==
    /\ Returned
    /\ \E i \in Placed : \E k \in Placed :
          /\ i < k /\ Fixed(k)
          /\ Overlap(placements[i], placements[k])

\* C4: on return there is one placement per slot, in input order, carrying
\* the slot's number and footprint.
C4_OnePlacementPerSlot ==
    Returned =>
        /\ Len(placements) = Len(slotsToRender)
        /\ \A i \in 1..Len(slotsToRender) :
              /\ placements[i].slot = slotsToRender[i].slot
              /\ placements[i].w = slotsToRender[i].w
              /\ placements[i].h = slotsToRender[i].h

\* C4's case: a returned list that mixes fixed and searched slots, with
\* slot numbers that differ from the list positions and a non-square item.
C4_Witness ==
    /\ Returned
    /\ Len(slotsToRender) >= 3
    /\ slotsToRender[1].slot # 1
    /\ \E i \in Placed : \E j \in Placed :
          Fixed(i) /\ ~Fixed(j) /\ slotsToRender[j].w # slotsToRender[j].h

\* C5: the returned row count is max(4, max of row + h): at least 4, 4 for
\* an empty list, no placement ends below it, and above 4 some placement
\* ends exactly there.
C5_RowCount ==
    Returned =>
        /\ rows >= MinRows
        /\ \A k \in Placed : placements[k].row + placements[k].h <= rows
        /\ \/ rows = MinRows
           \/ \E k \in Placed : placements[k].row + placements[k].h = rows
        /\ (slotsToRender = <<>> => rows = MinRows)

\* C5's case: a returned row count above the floor.
C5_Witness == Returned /\ rows > MinRows

\* Every slot the search is run for is no wider than the grid.
AllSearchedFit ==
    \A i \in 1..Len(slotsToRender) :
        ~HasFixedPosition(slotsToRender[i]) => slotsToRender[i].w <= cols

\* findFree is scanning for a slot wider than the grid.
ScanningOverWide ==
    pc = "findFree" /\ getItemWidth(slotsToRender[idx]) > cols

\* C6: packItems returns if and only if every slot without a fixed position
\* has w <= cols; the search for a wider slot only ever moves on to the next
\* row, growing the matrix, and never returns.
C6_TerminatesIffSearchedFit ==
    /\ AllSearchedFit => <>Returned
    /\ ~AllSearchedFit => []~Returned
    /\ [][ScanningOverWide =>
             /\ ScanningOverWide'
             /\ r' = r + 1
             /\ Len(occupied') >= r']_vars

\* C6's case: the search for an over-wide slot has scanned past every row
\* that fixed slots before it occupy.
C6_Witness ==
    /\ ScanningOverWide
    /\ \E i \in Placed : Fixed(i)
    /\ r >= Len(occupied)
    /\ r > MinRows

\* All slots are 1x1 and none has a fixed position.
AllUnitUnpositioned ==
    \A i \in 1..Len(slotsToRender) :
        /\ slotsToRender[i].w = 1
        /\ slotsToRender[i].h = 1
        /\ ~HasFixedPosition(slotsToRender[i])

\* C7: with only 1x1 slots and no fixed position, the i-th slot (from 0) is
\* placed at col = i mod cols, row = i div cols.
C7_RowMajorFill ==
    AllUnitUnpositioned =>
        \A k \in Placed :
            /\ placements[k].col = (k - 1) % cols
            /\ placements[k].row = (k - 1) \div cols

\* C7's case: a returned list of 1x1 slots that fills two rows and starts a
\* third.
C7_Witness ==
    /\ Returned
    /\ AllUnitUnpositioned
    /\ Len(placements) > 2 * cols

\* The cells of the rows x GRID_COLS grid no placement covers.
UncoveredCells ==
    { cell \in (0..(GRID_COLS - 1)) \X (0..(rows - 1)) :
        \A k \in Placed : cell \notin Cells(placements[k]) }

\* The position of a cell in the row-major scan of the grid.
ScanOrder(cell) == cell[2] * GRID_COLS + cell[1]

\* The positions in slotsToRender of the slots whose name is undefined.
EmptyPositions ==
    { i \in 1..Len(slotsToRender) : slotsToRender[i].name = undefined }

\* C8: the k-th uncovered cell of the row-major scan is assigned the k-th
\* slot whose name is undefined; min(uncovered cells, empty slots) cells are
\* assigned, no empty slot twice, and no assigned cell is covered.
C8_EmptyCellAssignment ==
    pc = "rendered" =>
        /\ Len(emptyCellSlots) =
              IF Cardinality(UncoveredCells) <= Cardinality(EmptyPositions)
              THEN Cardinality(UncoveredCells)
              ELSE Cardinality(EmptyPositions)
        /\ \A k \in 1..Len(emptyCellSlots) :
              LET cell == << emptyCellSlots[k].col, emptyCellSlots[k].row >>
              IN  /\ cell \in UncoveredCells
                  /\ Cardinality({ u \in UncoveredCells :
                                     ScanOrder(u) < ScanOrder(cell) }) = k - 1
                  /\ \E i \in EmptyPositions :
                        /\ emptyCellSlots[k].slot = slotsToRender[i]
                        /\ Cardinality({ e \in EmptyPositions : e < i }) = k - 1
        /\ \A k \in 1..Len(emptyCellSlots) :
              \A m \in 1..Len(emptyCellSlots) :
                  k # m => emptyCellSlots[k].slot.slot # emptyCellSlots[m].slot.slot

\* C8's case: a render with fewer uncovered cells than empty slots, so that
\* some empty slots get no cell.
C8_Witness ==
    /\ pc = "rendered"
    /\ Cardinality(UncoveredCells) > 0
    /\ Cardinality(UncoveredCells) < Cardinality(EmptyPositions)

\* The cells covered by the placements made before the k-th.
CoveredBefore(k) == UNION { Cells(placements[j]) : j \in 1..(k - 1) }

\* The w x h rectangle at (c, row) is free of the cells in covered.
FreeAt(covered, c, row, w, h) ==
    \A dc \in 0..(w - 1) : \A dr \in 0..(h - 1) :
        << c + dc, row + dr >> \notin covered

\* C9: a searched slot is placed at the first free rectangle in row-major
\* order relative to the placements made before it.
C9_FirstFreeRowMajor ==
    \A k \in Placed :
        ~Fixed(k) =>
            LET p == placements[k]
                covered == CoveredBefore(k)
            IN  /\ FreeAt(covered, p.col, p.row, p.w, p.h)
                /\ \A row \in 0..p.row : \A c \in 0..(cols - p.w) :
                      (row < p.row \/ c < p.col) =>
                          ~FreeAt(covered, c, row, p.w, p.h)

\* C9's case: the scenario 1x1, 1x1, 2x2, 1x1 placed at (0,0), (1,0),
\* (2,0), (4,0) with 4 rows.
C9_Witness ==
    /\ Returned
    /\ Len(placements) = 4
    /\ \A k \in Placed : ~Fixed(k)
    /\ [k \in 1..4 |-> << placements[k].w, placements[k].h >>]
          = << <<1, 1>>, <<1, 1>>, <<2, 2>>, <<1, 1>> >>
    /\ [k \in 1..4 |-> << placements[k].col, placements[k].row >>]
          = << <<0, 0>>, <<1, 0>>, <<2, 0>>, <<4, 0>> >>
    /\ rows = 4

\* The cell is marked in the occupancy matrix.
Marked(cell) ==
    /\ cell[2] + 1 \in 1..Len(occupied)
    /\ cell[1] \in occupied[cell[2] + 1]

\* C10, as claimed: no searched slot is placed on a cell that a
\* fixed-position slot covers, wherever the fixed slot stands in the input.
C10_NeverOnFixedCells ==
    \A j \in Placed : \A k \in Placed :
        (Fixed(j) /\ ~Fixed(k)) => ~Overlap(placements[j], placements[k])

\* C10, amended: when a search runs, the cells of every fixed-position slot
\* that stands before the searched slot in the input are marked occupied, so
\* no searched slot is placed on a cell of a fixed slot that precedes it.
C10_NeverOnEarlierFixedCells ==
    /\ pc = "findFree" =>
          \A j \in 1..(idx - 1) :
              Fixed(j) => \A cell \in Cells(placements[j]) : Marked(cell)
    /\ \A j \in Placed : \A k \in Placed :
          (j < k /\ Fixed(j) /\ ~Fixed(k)) =>
              ~Overlap(placements[j], placements[k])

\* C10's case: a searched slot pushed below the rectangle of a fixed slot
\* that precedes it.
C10_Witness ==
    /\ Returned
    /\ \E j \in Placed : \E k \in Placed :
          /\ j < k /\ Fixed(j) /\ ~Fixed(k)
          /\ placements[k].row = placements[j].row + placements[j].h
          /\ placements[k].col <= placements[j].col
          /\ placements[j].col < placements[k].col + placements[k].w

====
